---- MODULE Spec2Model ----
(***************************************************************************)
(* Munder Difflin: the transaction ledger, the stored inventory table, the *)
(* quote log and the operations of the tools (src/src/tools) and of the    *)
(* agents (src/src/agents) that read and write them.                       *)
(*                                                                         *)
(* Money: ledger prices and cash are in cents; quote amounts are in        *)
(* 1/100 cent so that a percentage of a cent amount is exact.              *)
(* Dates: SQLite compares transaction_date as text.  A tool writes the     *)
(* caller's current_date "YYYY-MM-DD"; an agent writes                     *)
(* now() as "YYYY-MM-DD HH:MM:SS".  DateKey and StampKey map both forms to *)
(* integers in the order of the text comparison.                           *)
(***************************************************************************)
EXTENDS Integers, Sequences, FiniteSets, TLC

VARIABLES transactions, inventory, quotes, clock, seed_stock, result, workers, session

vars == <<transactions, inventory, quotes, clock, seed_stock, result, workers, session>>

----------------------------------------------------------------------------
(* Bounds of the model *)

MaxAppend == 2
MaxQuotes == 1
MaxDay == 2
MaxClock == 1

----------------------------------------------------------------------------
(* Catalog and seeding (init_database, generate_sample_inventory) *)

INITIAL_CASH == 5000000

INITIAL_DATE == 0

TicksPerDay == 2

Catalog == {"A4 paper", "Cardstock"}

CatalogOrder == <<"A4 paper", "Cardstock">>

unit_price == [n \in Catalog |-> IF n = "A4 paper" THEN 5 ELSE 15]

min_stock_level == [n \in Catalog |-> IF n = "A4 paper" THEN 50 ELSE 100]

SeedStocks == {200}

NoItem == "None"

NoId == <<"", 0>>

Days == 0..MaxDay

DateKey(d) == d * (TicksPerDay + 1)

StampKey(t) == (t \div TicksPerDay) * (TicksPerDay + 1) + 1 + (t % TicksPerDay)

Lower(n) ==
    CASE n = "A4 paper" -> "a4 paper"
      [] n = "Cardstock" -> "cardstock"
      [] n = "Invisible Paper" -> "invisible paper"
      [] OTHER -> n

SeedTransactions(stock) ==
    <<[id |-> NoId, item_name |-> NoItem, transaction_type |-> "sales",
       units |-> 0, price |-> INITIAL_CASH, transaction_date |-> DateKey(INITIAL_DATE)]>>
    \o [i \in 1..Len(CatalogOrder) |->
          [id |-> NoId, item_name |-> CatalogOrder[i], transaction_type |-> "stock_orders",
           units |-> stock[CatalogOrder[i]],
           price |-> stock[CatalogOrder[i]] * unit_price[CatalogOrder[i]],
           transaction_date |-> DateKey(INITIAL_DATE)]]

NSeed == 1 + Len(CatalogOrder)

MaxLedger == NSeed + MaxAppend

----------------------------------------------------------------------------
(* Folds over the ledger (database.py) *)

RECURSIVE StockFold(_, _, _, _)
StockFold(tx, i, item_name, as_of_date) ==
    IF i = 0 THEN 0
    ELSE StockFold(tx, i - 1, item_name, as_of_date) +
         (IF tx[i].item_name = item_name /\ tx[i].transaction_date <= as_of_date
          THEN CASE tx[i].transaction_type = "stock_orders" -> tx[i].units
                 [] tx[i].transaction_type = "sales" -> -tx[i].units
                 [] OTHER -> 0
          ELSE 0)

get_stock_level_before(tx, item_name, as_of_date) ==
    StockFold(tx, Len(tx), item_name, as_of_date - 1)

get_stock_level(tx, item_name, as_of_date) == StockFold(tx, Len(tx), item_name, as_of_date)

RECURSIVE CashFold(_, _, _)
CashFold(tx, i, as_of_date) ==
    IF i = 0 THEN 0
    ELSE CashFold(tx, i - 1, as_of_date) +
         (IF tx[i].transaction_date <= as_of_date
          THEN CASE tx[i].transaction_type = "sales" -> tx[i].price
                 [] tx[i].transaction_type = "stock_orders" -> -tx[i].price
                 [] OTHER -> 0
          ELSE 0)

get_cash_balance(tx, as_of_date) == CashFold(tx, Len(tx), as_of_date)

create_transaction(tx, item_name, transaction_type, quantity, price, date) ==
    Append(tx, [id |-> NoId, item_name |-> item_name, transaction_type |-> transaction_type,
                units |-> quantity, price |-> price, transaction_date |-> date])

----------------------------------------------------------------------------
(* Inputs *)

UnknownItem == "Invisible Paper"

ToolNames == Catalog \cup {UnknownItem}

QuotedPrice(n) == IF n \in Catalog THEN unit_price[n] ELSE 5

SaleLine(n, q) == [item_name |-> n, quantity |-> q, unit_price |-> QuotedPrice(n)]

\* items of process_sale_tool: a dict, iterated in insertion order
SaleBaskets ==
    {<<SaleLine("A4 paper", q)>> : q \in {150, 200}}
    \cup {<<SaleLine("Cardstock", 150)>>, <<SaleLine(UnknownItem, 150)>>,
          <<SaleLine("A4 paper", 150), SaleLine("Cardstock", 150)>>,
          <<SaleLine("A4 paper", 150), SaleLine("Cardstock", 500)>>}

BadQuantities == {-10, 0}

BadSaleBaskets == {<<SaleLine("A4 paper", q)>> : q \in BadQuantities}

----------------------------------------------------------------------------
(* process_sale_tool (tools/sales_tools.py) *)

RECURSIVE FirstShort(_, _, _, _)
FirstShort(tx, items, i, date) ==
    IF i > Len(items) THEN 0
    ELSE IF get_stock_level(tx, items[i].item_name, date) < items[i].quantity THEN i
    ELSE FirstShort(tx, items, i + 1, date)

RECURSIVE AppendSales(_, _, _, _)
AppendSales(tx, items, i, date) ==
    IF i > Len(items) THEN tx
    ELSE AppendSales(
           create_transaction(tx, items[i].item_name, "sales", items[i].quantity,
                              items[i].quantity * items[i].unit_price, date),
           items, i + 1, date)

\* phase 2 reads details["unit_price"]: the first item without that key
\* raises KeyError, after the items before it have been inserted
RECURSIVE FirstUnpriced(_, _)
FirstUnpriced(items, i) ==
    IF i > Len(items) THEN 0
    ELSE IF "unit_price" \notin DOMAIN items[i] THEN i
    ELSE FirstUnpriced(items, i + 1)

process_sale_tool(d, items) ==
    LET date == DateKey(d)
        short == FirstShort(transactions, items, 1, date)
        unpriced == FirstUnpriced(items, 1)
    IN  /\ IF short # 0
           THEN /\ transactions' = transactions
                /\ result' = [op |-> "process_sale_tool", date |-> date, items |-> items,
                              success |-> FALSE, error |-> "InsufficientStock",
                              item_name |-> items[short].item_name,
                              requested |-> items[short].quantity,
                              available |-> get_stock_level(transactions,
                                                            items[short].item_name, date)]
           ELSE IF unpriced # 0
           THEN \* except Exception: return {"success": False, "error": str(e)}
                /\ transactions' = AppendSales(transactions, SubSeq(items, 1, unpriced - 1),
                                               1, date)
                /\ result' = [op |-> "process_sale_tool", date |-> date, items |-> items,
                              success |-> FALSE, error |-> "KeyError"]
           ELSE LET tx2 == AppendSales(transactions, items, 1, date)
                IN  /\ transactions' = tx2
                    /\ result' = [op |-> "process_sale_tool", date |-> date, items |-> items,
                                  success |-> TRUE, error |-> "",
                                  items_sold |-> Len(items),
                                  new_cash_balance |-> get_cash_balance(tx2, date)]
        /\ UNCHANGED <<inventory, quotes, clock, seed_stock, workers, session>>

----------------------------------------------------------------------------
(* place_stock_order_tool (tools/sales_tools.py) and the supplier lead time *)

LeadDays(quantity) ==
    IF quantity <= 10 THEN 0
    ELSE IF quantity <= 100 THEN 1
    ELSE IF quantity <= 1000 THEN 4
    ELSE 7

get_supplier_delivery_date(d, quantity) == d + LeadDays(quantity)

place_stock_order_tool(d, item_name, quantity) ==
    LET date == DateKey(d)
        call == [op |-> "place_stock_order_tool", date |-> date,
                 item_name |-> item_name, quantity |-> quantity]
    IN  /\ IF item_name \notin Catalog
           THEN /\ transactions' = transactions
                /\ result' = call @@ [success |-> FALSE, error |-> "ItemNotFound"]
           ELSE LET total_cost == quantity * unit_price[item_name]
                    current_cash == get_cash_balance(transactions, date)
                IN  IF current_cash < total_cost
                    THEN /\ transactions' = transactions
                         /\ result' = call @@
                               [success |-> FALSE, error |-> "InsufficientFunds",
                                required |-> total_cost, available |-> current_cash,
                                shortage |-> total_cost - current_cash]
                    ELSE /\ transactions' = create_transaction(transactions, item_name,
                                               "stock_orders", quantity, total_cost, date)
                         /\ result' = call @@
                               [success |-> TRUE, error |-> "", cost |-> total_cost,
                                estimated_delivery |-> get_supplier_delivery_date(d, quantity),
                                remaining_cash |-> current_cash - total_cost]
        /\ UNCHANGED <<inventory, quotes, clock, seed_stock, workers, session>>

----------------------------------------------------------------------------
(* Agents: catalog lookup by LOWER(item_name) = LOWER(?) on the inventory  *)
(* table; the agents read and write the stored inventory.current_stock     *)

FindItem(item_name) == {n \in Catalog : Lower(n) = Lower(item_name)}

ActualName(item_name) == CHOOSE n \in FindItem(item_name) : TRUE

generate_id(transaction_type, now) == <<IF transaction_type = "sales" THEN "S" ELSE "P", now>>

generate_order_id(now) == <<"PO", now>>

generate_request_id(now) == <<"Q", now>>

(* create_sales_transaction (agents/sales_agent.py) *)

create_sales_transaction(item_name, quantity, quoted_price, with_quote_id) ==
    LET call == [op |-> "create_sales_transaction", item_name |-> item_name,
                 quantity |-> quantity, unit_price |-> quoted_price,
                 quote_id |-> with_quote_id]
    IN  /\ IF FindItem(item_name) = {}
           THEN /\ result' = call @@ [success |-> FALSE, error |-> "ItemNotFound"]
                /\ UNCHANGED <<transactions, inventory>>
           ELSE LET actual_name == ActualName(item_name)
                    current_stock == inventory[actual_name]
                    new_stock == current_stock - quantity
                IN  IF current_stock < quantity
                    THEN /\ result' = call @@
                               [success |-> FALSE, error |-> "InsufficientStock",
                                requested |-> quantity, available |-> current_stock]
                         /\ UNCHANGED <<transactions, inventory>>
                    ELSE IF current_stock = 0
                    THEN /\ result' = call @@ [success |-> FALSE, error |-> "OutOfStock"]
                         /\ UNCHANGED <<transactions, inventory>>
                    ELSE IF with_quote_id
                    THEN \* UPDATE quotes SET status ...: the quotes table of
                         \* init_database has no such column; the except branch
                         \* rolls the INSERT and the UPDATE back
                         /\ result' = call @@ [success |-> FALSE, error |-> "Error"]
                         /\ UNCHANGED <<transactions, inventory>>
                    ELSE /\ transactions' = Append(transactions,
                               [id |-> generate_id("sales", clock),
                                item_name |-> actual_name, transaction_type |-> "sales",
                                units |-> quantity, price |-> quoted_price * quantity,
                                transaction_date |-> StampKey(clock)])
                         /\ inventory' = [inventory EXCEPT ![actual_name] = new_stock]
                         /\ result' = call @@
                               [success |-> TRUE, error |-> "", id |-> generate_id("sales", clock),
                                actual_name |-> actual_name, new_stock |-> new_stock,
                                reorder_alert |-> new_stock < min_stock_level[actual_name]]
        /\ UNCHANGED <<quotes, clock, seed_stock, workers, session>>

----------------------------------------------------------------------------
(* place_supplier_order and auto_reorder_all_low_stock (agents/reordering.py) *)

DELIVERY_DAYS == 6

calculate_delivery_date(now) == now \div TicksPerDay + DELIVERY_DAYS

\* The ledger and the stored inventory after place_supplier_order; db_ok is
\* FALSE when sqlite raises inside the try block (rollback, error string).
SupplierOrderEffect(tx, inv, item_name, quantity, now, db_ok) ==
    IF FindItem(item_name) = {}
    THEN [tx |-> tx, inv |-> inv, status |-> "ItemNotFound"]
    ELSE IF ~db_ok
    THEN [tx |-> tx, inv |-> inv, status |-> "Error"]
    ELSE LET actual_name == ActualName(item_name)
         IN  [tx |-> Append(tx, [id |-> generate_order_id(now), item_name |-> actual_name,
                                 transaction_type |-> "stock_orders", units |-> quantity,
                                 price |-> unit_price[actual_name] * quantity,
                                 transaction_date |-> StampKey(now)]),
              inv |-> [inv EXCEPT ![actual_name] = inv[actual_name] + quantity],
              status |-> "ok"]

place_supplier_order(item_name, quantity, db_ok) ==
    LET eff == SupplierOrderEffect(transactions, inventory, item_name, quantity, clock, db_ok)
    IN  /\ transactions' = eff.tx
        /\ inventory' = eff.inv
        /\ result' = [op |-> "place_supplier_order", item_name |-> item_name,
                      quantity |-> quantity, success |-> eff.status = "ok",
                      error |-> IF eff.status = "ok" THEN "" ELSE eff.status,
                      expected_delivery |-> calculate_delivery_date(clock)]
        /\ UNCHANGED <<quotes, clock, seed_stock, workers, session>>

\* int(min_stock_level * 1.5 - current_stock), safety_stock_multiplier = 1.5;
\* Python's int() truncates toward zero
TruncHalf(x) == IF x >= 0 THEN x \div 2 ELSE -((-x) \div 2)

ReorderQty(item_name, current_stock) ==
    TruncHalf(3 * min_stock_level[item_name] - 2 * current_stock)

LowRows(inv) ==
    SelectSeq(CatalogOrder, LAMBDA n : inv[n] < min_stock_level[n])

RECURSIVE ReorderLoop(_, _, _, _, _, _)
ReorderLoop(rows, i, snapshot, st, now, failing) ==
    IF i > Len(rows) THEN st
    ELSE LET n == rows[i]
             reorder_qty == ReorderQty(n, snapshot[n])
             eff == SupplierOrderEffect(st.tx, st.inv, n, reorder_qty, now, n \notin failing)
             item_cost == reorder_qty * unit_price[n]
         IN  ReorderLoop(rows, i + 1, snapshot,
                 [tx |-> eff.tx, inv |-> eff.inv,
                  total_cost |-> st.total_cost + item_cost,
                  orders_placed |-> Append(st.orders_placed,
                        [product |-> n, quantity |-> reorder_qty, cost |-> item_cost]),
                  outcomes |-> Append(st.outcomes, eff.status)],
                 now, failing)

auto_reorder_all_low_stock(failing) ==
    LET rows == LowRows(inventory)
        st == ReorderLoop(rows, 1, inventory,
                  [tx |-> transactions, inv |-> inventory, total_cost |-> 0,
                   orders_placed |-> <<>>, outcomes |-> <<>>], clock, failing)
    IN  /\ failing \subseteq {rows[i] : i \in 1..Len(rows)}
        /\ transactions' = st.tx
        /\ inventory' = st.inv
        /\ result' = [op |-> "auto_reorder_all_low_stock", success |-> TRUE, error |-> "",
                      rows |-> rows, orders_placed |-> st.orders_placed,
                      total_cost |-> st.total_cost, outcomes |-> st.outcomes]
        /\ UNCHANGED <<quotes, clock, seed_stock, workers, session>>

----------------------------------------------------------------------------
(* get_all_inventory (database.py) and identify_low_stock_tool             *)
(* (tools/inventory_tools.py)                                              *)

LedgerItems(tx) == {tx[i].item_name : i \in 1..Len(tx)} \ {NoItem}

\* SELECT item_name, SUM(CASE ...) AS stock ... WHERE item_name IS NOT NULL
\* AND transaction_date <= :as_of_date GROUP BY item_name: one pass over the
\* rows, a running sum per group
RECURSIVE GroupStock(_, _, _)
GroupStock(tx, i, as_of_date) ==
    IF i = 0 THEN [n \in {} |-> 0]
    ELSE LET groups == GroupStock(tx, i - 1, as_of_date)
             row == tx[i]
             signed == CASE row.transaction_type = "stock_orders" -> row.units
                         [] row.transaction_type = "sales" -> -row.units
                         [] OTHER -> 0
         IN  IF row.item_name = NoItem \/ row.transaction_date > as_of_date THEN groups
             ELSE [n \in DOMAIN groups \cup {row.item_name} |->
                      IF n = row.item_name
                      THEN (IF n \in DOMAIN groups THEN groups[n] ELSE 0) + signed
                      ELSE groups[n]]

get_all_inventory_unfiltered(tx, as_of_date) == GroupStock(tx, Len(tx), as_of_date)

\* ... HAVING stock > 0
get_all_inventory(tx, as_of_date) ==
    LET groups == GroupStock(tx, Len(tx), as_of_date)
    IN  [n \in {m \in DOMAIN groups : groups[m] > 0} |-> groups[n]]

check_all_inventory_tool(d) ==
    /\ result' = [op |-> "check_all_inventory_tool", date |-> DateKey(d),
                  inventory |-> get_all_inventory(transactions, DateKey(d))]
    /\ UNCHANGED <<transactions, inventory, quotes, clock, seed_stock, workers, session>>

(* The aggregations called on their own (database.py): each is one SELECT  *)

read_and_reseed(output) ==
    /\ result' = output
    /\ transactions' = SeedTransactions(seed_stock)
    /\ inventory' = seed_stock
    /\ UNCHANGED <<quotes, clock, seed_stock, workers, session>>

\* pd.read_sql(query, engine, params): the call returns its output and
\* writes nothing
read_sql(output) ==
    /\ result' = output
    /\ UNCHANGED <<transactions, inventory, quotes, clock, seed_stock, workers, session>>

ReadValue(tx, call) ==
    CASE call.op = "get_stock_level" -> get_stock_level(tx, call.item_name, call.as_of_date)
      [] call.op = "get_all_inventory" -> get_all_inventory(tx, call.as_of_date)
      [] call.op = "get_cash_balance" -> get_cash_balance(tx, call.as_of_date)

ReadCall(call) == read_sql(call @@ [value |-> ReadValue(transactions, call)])

RECURSIVE LowStockLoop(_, _, _)
LowStockLoop(current_inventory, i, low_stock_items) ==
    IF i > Len(CatalogOrder) THEN low_stock_items
    ELSE LET item_name == CatalogOrder[i]
             min_level == min_stock_level[item_name]
             current == IF item_name \in DOMAIN current_inventory
                        THEN current_inventory[item_name] ELSE 0
         IN  LowStockLoop(current_inventory, i + 1,
                 IF current < min_level
                 THEN Append(low_stock_items,
                          [item_name |-> item_name, current_stock |-> current,
                           min_stock_level |-> min_level, shortage |-> min_level - current,
                           unit_price |-> unit_price[item_name], status |-> "critical"])
                 ELSE low_stock_items)

identify_low_stock_tool(d) ==
    /\ result' = [op |-> "identify_low_stock_tool", date |-> DateKey(d),
                  low_stock_items |->
                      LowStockLoop(get_all_inventory(transactions, DateKey(d)), 1, <<>>)]
    /\ UNCHANGED <<transactions, inventory, quotes, clock, seed_stock, workers, session>>

----------------------------------------------------------------------------
(* check_low_stock_items (agents/reordering.py) and                        *)
(* calculate_reorder_quantity_tool (tools/sales_tools.py)                  *)

Deficit(inv, n) == min_stock_level[n] - inv[n]

\* ... WHERE current_stock < min_stock_level ORDER BY (min_stock_level - current_stock) DESC
LowRowsByDeficit(inv) ==
    SortSeq(LowRows(inv), LAMBDA a, b : Deficit(inv, a) > Deficit(inv, b))

check_low_stock_items ==
    LET rows == LowRowsByDeficit(inventory)
        reorder_items ==
            [i \in 1..Len(rows) |->
                [item_name |-> rows[i], current_stock |-> inventory[rows[i]],
                 min_stock_level |-> min_stock_level[rows[i]],
                 deficit |-> Deficit(inventory, rows[i]),
                 reorder_quantity |-> ReorderQty(rows[i], inventory[rows[i]]),
                 total_cost |-> ReorderQty(rows[i], inventory[rows[i]]) * unit_price[rows[i]]]]
    IN  /\ result' = [op |-> "check_low_stock_items", success |-> TRUE, error |-> "",
                      reorder_items |-> reorder_items]
        /\ UNCHANGED <<transactions, inventory, quotes, clock, seed_stock, workers, session>>

REORDER_MULTIPLIER == 2

calculate_reorder_quantity_tool(item_name, current_stock) ==
    LET call == [op |-> "calculate_reorder_quantity_tool", item_name |-> item_name,
                 current_stock |-> current_stock]
    IN  /\ IF item_name \notin Catalog
           THEN result' = call @@ [reorder_qty |-> 0]
           ELSE LET min_level == min_stock_level[item_name]
                    optimal_stock == min_level * REORDER_MULTIPLIER
                IN  result' = call @@
                        [reorder_qty |-> IF optimal_stock - current_stock > 0
                                         THEN optimal_stock - current_stock ELSE 0]
        /\ UNCHANGED <<transactions, inventory, quotes, clock, seed_stock, workers, session>>

----------------------------------------------------------------------------
(* Quoting: DiscountTiers, calculate_quote_totals, generate_quote          *)
(* (agents/quoting_agent.py); rates are in percent, quote amounts in       *)
(* 1/100 cent (unit_price in cents times RateScale)                        *)

RateScale == 100

TIERS_ascending == <<<<50, 2>>, <<200, 5>>, <<500, 10>>, <<1000, 15>>>>

TIERS == <<<<1000, 15>>, <<500, 10>>, <<200, 5>>, <<50, 2>>>>

RECURSIVE TierFrom(_, _)
TierFrom(i, quantity) ==
    IF i > Len(TIERS) THEN 0
    ELSE IF quantity >= TIERS[i][1] THEN TIERS[i][2]
    ELSE TierFrom(i + 1, quantity)

get_discount_percentage(quantity) == TierFrom(1, quantity)

calculate_quote_totals_undiscounted(price, quantity, discount_pct) ==
    LET subtotal == price * quantity * RateScale
        discount_amount == price * quantity * discount_pct
    IN  [subtotal |-> subtotal, discount_amount |-> discount_amount,
         total |-> subtotal]

calculate_quote_totals(price, quantity, discount_pct) ==
    LET subtotal == price * quantity * RateScale
        discount_amount == price * quantity * discount_pct
    IN  [subtotal |-> subtotal, discount_amount |-> discount_amount,
         total |-> subtotal - discount_amount]

QUOTE_VALID_DAYS == 30

InsertQuoteTwice(q, rec) == Append(Append(q, rec), rec)

\* INSERT INTO quotes ... ; conn.commit()
InsertQuote(q, rec) == Append(q, rec)

generate_quote(item_name, quantity) ==
    LET call == [op |-> "generate_quote", item_name |-> item_name, quantity |-> quantity]
    IN  /\ IF FindItem(item_name) = {}
           THEN /\ quotes' = quotes
                /\ result' = call @@ [success |-> FALSE, error |-> "ItemNotFound"]
           ELSE LET actual_name == ActualName(item_name)
                    price == unit_price[actual_name]
                    current_stock == inventory[actual_name]
                    availability_warning ==
                        IF current_stock = 0 THEN "out_of_stock"
                        ELSE IF current_stock < quantity THEN "insufficient"
                        ELSE ""
                    discount_pct == get_discount_percentage(quantity)
                    totals == calculate_quote_totals(price, quantity, discount_pct)
                    request_id == generate_request_id(clock)
                    quote_explanation ==
                        [quantity |-> quantity, item_name |-> actual_name,
                         unit_price |-> price, discount |-> discount_pct]
                IN  /\ quotes' = InsertQuote(quotes,
                           [request_id |-> request_id, total_amount |-> totals.total,
                            quote_explanation |-> quote_explanation])
                    /\ result' = call @@
                           [success |-> TRUE, error |-> "", request_id |-> request_id,
                            actual_name |-> actual_name, unit_price |-> price,
                            discount_percentage |-> discount_pct,
                            subtotal |-> totals.subtotal,
                            discount_amount |-> totals.discount_amount,
                            total_price |-> totals.total,
                            valid_until |-> clock \div TicksPerDay + QUOTE_VALID_DAYS,
                            availability_warning |-> availability_warning]
        /\ UNCHANGED <<transactions, inventory, clock, seed_stock, workers, session>>

----------------------------------------------------------------------------
(* calculate_total_price_tool (tools/quoting_tools.py); amounts in cents *)

RECURSIVE PriceLoop(_, _, _)
PriceLoop(items, i, acc) ==
    IF i > Len(items) THEN acc
    ELSE IF items[i].item_name \notin Catalog
    THEN PriceLoop(items, i + 1, acc)
    ELSE LET subtotal == items[i].quantity * unit_price[items[i].item_name]
         IN  PriceLoop(items, i + 1,
                 [items_breakdown |-> Append(acc.items_breakdown,
                        [item_name |-> items[i].item_name, quantity |-> items[i].quantity,
                         unit_price |-> unit_price[items[i].item_name],
                         subtotal |-> subtotal]),
                  total_base_price |-> acc.total_base_price + subtotal,
                  total_units |-> acc.total_units + items[i].quantity])

calculate_total_price_tool(items) ==
    LET acc == PriceLoop(items, 1,
                   [items_breakdown |-> <<>>, total_base_price |-> 0, total_units |-> 0])
    IN  /\ result' = [op |-> "calculate_total_price_tool", items |-> items,
                      success |-> TRUE, error |-> "",
                      items_breakdown |-> acc.items_breakdown,
                      total_base_price |-> acc.total_base_price,
                      total_items |-> Len(acc.items_breakdown),
                      total_units |-> acc.total_units]
        /\ UNCHANGED <<transactions, inventory, quotes, clock, seed_stock, workers, session>>

----------------------------------------------------------------------------
(* AdvancedMultiAgentSystem.process_customer_request_advanced              *)
(* (main_advanced.py): calls init_database(), which replaces the           *)
(* transactions, inventory and quotes tables by their seeded contents; the *)
(* later steps are simulated and do not touch the database                 *)

process_customer_request_advanced ==
    /\ transactions' = SeedTransactions(seed_stock)
    /\ inventory' = seed_stock
    /\ quotes' = <<>>
    /\ result' = [op |-> "process_customer_request_advanced", success |-> TRUE,
                  error |-> "", negotiation_successful |-> TRUE,
                  transaction_completed |-> TRUE, items_sold |-> 700]
    /\ UNCHANGED <<clock, seed_stock, workers, session>>

----------------------------------------------------------------------------
(* Two callers running a sale at the same time.  process_sale_tool is a    *)
(* synchronous tool (run on a worker thread): phase 1 reads the stock,     *)
(* phase 2 writes, with no lock or transaction around the two.             *)
(* create_sales_transaction runs on its own sqlite connection: the SELECT  *)
(* is outside the write transaction that the INSERT opens and that         *)
(* commit() ends.                                                          *)

Workers == {1, 2}

IdleWorker ==
    [pc |-> "idle", kind |-> "", item_name |-> "", quantity |-> 0, date |-> 0,
     current_stock |-> 0, outcome |-> ""]

\* process_sale_tool, phase 1, for items = {item_name: {quantity, unit_price}}
sale_tool_check(w, d, item_name, quantity) ==
    LET available == get_stock_level(transactions, item_name, DateKey(d))
    IN  /\ workers[w].pc = "idle"
        /\ workers' = [workers EXCEPT ![w] =
               [pc |-> IF available < quantity THEN "done" ELSE "checked",
                kind |-> "process_sale_tool", item_name |-> item_name,
                quantity |-> quantity, date |-> DateKey(d), current_stock |-> available,
                outcome |-> IF available < quantity THEN "InsufficientStock" ELSE ""]]
        /\ UNCHANGED <<transactions, inventory, quotes, clock, seed_stock, result, session>>

\* process_sale_tool, phase 2
sale_tool_append(w) ==
    /\ workers[w].pc = "checked"
    /\ workers[w].kind = "process_sale_tool"
    /\ transactions' = create_transaction(transactions, workers[w].item_name, "sales",
                           workers[w].quantity,
                           workers[w].quantity * QuotedPrice(workers[w].item_name),
                           workers[w].date)
    /\ workers' = [workers EXCEPT ![w].pc = "done", ![w].outcome = "ok"]
    /\ UNCHANGED <<inventory, quotes, clock, seed_stock, result, session>>

\* create_sales_transaction, steps 1-2: SELECT and the availability checks
agent_sale_select(w, item_name, quantity) ==
    LET current_stock == inventory[item_name]
        failure == IF current_stock < quantity THEN "InsufficientStock"
                   ELSE IF current_stock = 0 THEN "OutOfStock" ELSE ""
    IN  /\ workers[w].pc = "idle"
        /\ workers' = [workers EXCEPT ![w] =
               [pc |-> IF failure = "" THEN "checked" ELSE "done",
                kind |-> "create_sales_transaction", item_name |-> item_name,
                quantity |-> quantity, date |-> StampKey(clock),
                current_stock |-> current_stock, outcome |-> failure]]
        /\ UNCHANGED <<transactions, inventory, quotes, clock, seed_stock, result, session>>

\* create_sales_transaction, steps 4-6: INSERT, UPDATE inventory, commit
agent_sale_write(w) ==
    /\ workers[w].pc = "checked"
    /\ workers[w].kind = "create_sales_transaction"
    /\ transactions' = Append(transactions,
           [id |-> generate_id("sales", clock), item_name |-> workers[w].item_name,
            transaction_type |-> "sales", units |-> workers[w].quantity,
            price |-> QuotedPrice(workers[w].item_name) * workers[w].quantity,
            transaction_date |-> StampKey(clock)])
    /\ inventory' = [inventory EXCEPT
           ![workers[w].item_name] = workers[w].current_stock - workers[w].quantity]
    /\ workers' = [workers EXCEPT ![w].pc = "done", ![w].outcome = "ok",
                                  ![w].date = StampKey(clock)]
    /\ UNCHANGED <<quotes, clock, seed_stock, result, session>>

----------------------------------------------------------------------------
(* Customer profiles and evaluate_quote (agents/customer_agent.py).        *)
(* Money is in cents.  discount_percentage and loyalty_discount are the    *)
(* numbers the code compares, both times DiscountScale: a quote of the     *)
(* quoting agent carries a percentage (5.0), a profile a fraction (0.05).  *)
(* A score is kept as a numerator over ScoreDen(profile) =                 *)
(* 10 x (budget_max - budget_min), which makes every comparison exact.     *)

DiscountScale == 10000

NoBudget == <<>>

Profiles ==
    [CUST001 |-> [customer_id |-> "CUST001", customer_type |-> "premium",
                  negotiation_style |-> "analytical", budget_range |-> <<500000, 1500000>>,
                  preferred_delivery_time |-> 5, loyalty_discount |-> 500],
     CUST002 |-> [customer_id |-> "CUST002", customer_type |-> "bulk",
                  negotiation_style |-> "aggressive", budget_range |-> <<2000000, 5000000>>,
                  preferred_delivery_time |-> 3, loyalty_discount |-> 800],
     CUST003 |-> [customer_id |-> "CUST003", customer_type |-> "standard",
                  negotiation_style |-> "cooperative", budget_range |-> <<100000, 500000>>,
                  preferred_delivery_time |-> 7, loyalty_discount |-> 200]]

DefaultProfile(customer_id) ==
    [customer_id |-> customer_id, customer_type |-> "standard",
     negotiation_style |-> "cooperative", budget_range |-> NoBudget,
     preferred_delivery_time |-> 7, loyalty_discount |-> 0]

analyze_customer_profile(customer_id) ==
    IF customer_id \in DOMAIN Profiles THEN Profiles[customer_id]
    ELSE DefaultProfile(customer_id)

SpreadOf(profile) == profile.budget_range[2] - profile.budget_range[1]

ScoreDen(profile) == 10 * SpreadOf(profile)

\* price_score * 0.4 over ScoreDen, 0 when the price branch is not taken
price_component(total_price, budget_min, budget_max) ==
    IF budget_max # 0 /\ total_price <= budget_max
    THEN 4 * (budget_max - total_price)
    ELSE 0

delivery_component_late(delivery_days, preferred_delivery) ==
    IF delivery_days >= preferred_delivery THEN 3 ELSE 0

\* in tenths
delivery_component(delivery_days, preferred_delivery) ==
    IF delivery_days <= preferred_delivery THEN 3 ELSE 0

\* in tenths
discount_component(discount, loyalty_discount) ==
    IF discount >= loyalty_discount THEN 2 ELSE 0

strategy_for(satisfaction, spread) ==
    IF satisfaction >= 8 * spread THEN "accept"
    ELSE IF satisfaction >= 6 * spread THEN "minor_negotiation"
    ELSE "major_negotiation"

evaluate_quote(quote, customer_profile) ==
    LET call == [op |-> "evaluate_quote", quote |-> quote, profile |-> customer_profile]
    IN  /\ IF customer_profile.budget_range = NoBudget
           THEN \* budget_min, budget_max = None
                result' = call @@ [error |-> "TypeError"]
           ELSE LET budget_min == customer_profile.budget_range[1]
                    budget_max == customer_profile.budget_range[2]
                    spread == budget_max - budget_min
                IN  IF budget_max # 0 /\ quote.total_price <= budget_max /\ spread = 0
                    THEN result' = call @@ [error |-> "ZeroDivisionError"]
                    ELSE LET price == price_component(quote.total_price, budget_min, budget_max)
                             delivery == delivery_component(quote.delivery_days,
                                             customer_profile.preferred_delivery_time)
                             discount == discount_component(quote.discount_percentage,
                                             customer_profile.loyalty_discount)
                             satisfaction == 5 * spread + price + (delivery + discount) * spread
                         IN  result' = call @@
                                 [error |-> "", price |-> price, delivery |-> delivery,
                                  discount |-> discount, satisfaction_score |-> satisfaction,
                                  strategy |-> strategy_for(satisfaction, spread),
                                  price_acceptable |-> quote.total_price <= budget_max,
                                  delivery_acceptable |-> delivery = 3,
                                  discount_acceptable |-> discount = 2]
        /\ UNCHANGED <<transactions, inventory, quotes, clock, seed_stock, workers, session>>

----------------------------------------------------------------------------
(* make_counter_offer (agents/customer_agent.py).  A discount rate is a    *)
(* fraction times RateUnit; discount_percentage, the rate times 100, times *)
(* DiscountScale is the same integer.  subtotal is in cents, the           *)
(* recomputed discount_amount and total_price in cents times RateUnit.     *)

RateUnit == 1000000

DISCOUNT_CAP == 250000

discount_increase(negotiation_style, customer_type) ==
    LET by_style == IF negotiation_style = "aggressive" THEN 150000
                    ELSE IF negotiation_style = "analytical" THEN 100000
                    ELSE 60000
    IN  IF customer_type = "premium" THEN (by_style * 12) \div 10
        ELSE IF customer_type = "bulk" THEN (by_style * 15) \div 10
        ELSE by_style

delivery_reduction(negotiation_style) ==
    IF negotiation_style = "aggressive" THEN 2 ELSE 1

new_discount_uncapped(current_discount, increase) == current_discount + increase

new_discount(current_discount, increase) ==
    IF current_discount + increase < DISCOUNT_CAP
    THEN current_discount + increase ELSE DISCOUNT_CAP

MIN_DELIVERY_DAYS == 3

counter_offer_for(original_quote, customer_profile) ==
    LET style == customer_profile.negotiation_style
        type == customer_profile.customer_type
        \* original_quote.get('discount_percentage', 0), .get('subtotal', 0),
        \* .get('delivery_days', 7)
        current == IF "discount_percentage" \in DOMAIN original_quote
                   THEN original_quote.discount_percentage ELSE 0
        subtotal == IF "subtotal" \in DOMAIN original_quote THEN original_quote.subtotal ELSE 0
        delivery_days == IF "delivery_days" \in DOMAIN original_quote
                         THEN original_quote.delivery_days ELSE 7
        rate == new_discount(current, discount_increase(style, type))
        new_discount_amount == subtotal * rate
        days == delivery_days - delivery_reduction(style)
    IN  \* counter_offer = original_quote.copy(); counter_offer.update({...})
        [discount_percentage |-> rate,
         discount_amount |-> new_discount_amount,
         total_price |-> subtotal * RateUnit - new_discount_amount,
         delivery_days |-> IF days > MIN_DELIVERY_DAYS THEN days ELSE MIN_DELIVERY_DAYS,
         counter_offer_reason |-> <<type, style>>] @@ original_quote

make_counter_offer(original_quote, customer_profile) ==
    /\ result' = [op |-> "make_counter_offer", original_quote |-> original_quote,
                  profile |-> customer_profile,
                  counter_offer |-> counter_offer_for(original_quote, customer_profile)]
    /\ UNCHANGED <<transactions, inventory, quotes, clock, seed_stock, workers, session>>

----------------------------------------------------------------------------
(* negotiate_with_customer (agents/customer_agent.py): the session *)

(* Each customer_agent.run either raises or returns the model's output;    *)
(* the output of the evaluation run is a mapping with a strategy, or text, *)
(* on which evaluation.get raises.  Every exception ends in the except     *)
(* branch.  steps lists the runs that returned.                            *)

max_rounds == 3

NoDeal == "None"

NoReturn == [negotiation_successful |-> FALSE, error |-> "", initial_evaluation |-> "",
             counter_offer |-> FALSE, final_deal |-> NoDeal, negotiation_rounds |-> 0]

IdleSession ==
    [pc |-> "idle", customer_id |-> "", initial_quote |-> <<>>, steps |-> <<>>,
     evaluation |-> "", return |-> NoReturn]

EvaluationOutputs == {"accept", "minor_negotiation", "major_negotiation", "text"}

RunOutcomes == {"output", "raise"}

\* the except branch
negotiation_failed(error) ==
    /\ session' = [session EXCEPT !.pc = "done", !.return = [NoReturn EXCEPT !.error = error]]
    /\ UNCHANGED <<transactions, inventory, quotes, clock, seed_stock, result, workers>>

negotiation_step(pc, step) ==
    /\ session' = [session EXCEPT !.pc = pc, !.steps = Append(@, step)]
    /\ UNCHANGED <<transactions, inventory, quotes, clock, seed_stock, result, workers>>

negotiate_with_customer(customer_id, initial_quote) ==
    /\ session.pc = "idle"
    /\ session' = [session EXCEPT !.pc = "analyze", !.customer_id = customer_id,
                                  !.initial_quote = initial_quote]
    /\ UNCHANGED <<transactions, inventory, quotes, clock, seed_stock, result, workers>>

\* Step 1: analyze the customer profile
negotiation_analyze(outcome) ==
    /\ session.pc = "analyze"
    /\ IF outcome = "raise" THEN negotiation_failed("Exception")
       ELSE negotiation_step("evaluate", "analyze")

next_step_always_counter(evaluation) == "counter_offer"

\* if evaluation.get('strategy') != 'accept'
next_step(evaluation) ==
    IF evaluation # "accept" THEN "counter_offer" ELSE "finalize"

\* Step 2: evaluate the initial quote, then the test of Step 3
negotiation_evaluate(outcome, evaluation) ==
    /\ session.pc = "evaluate"
    /\ IF outcome = "raise" THEN negotiation_failed("Exception")
       ELSE IF evaluation = "text"
       THEN /\ session' = [session EXCEPT
                   !.pc = "done", !.steps = Append(@, "evaluate"), !.evaluation = evaluation,
                   !.return = [NoReturn EXCEPT !.error = "AttributeError"]]
            /\ UNCHANGED <<transactions, inventory, quotes, clock, seed_stock, result, workers>>
       ELSE /\ session' = [session EXCEPT
                   !.pc = next_step(evaluation), !.steps = Append(@, "evaluate"),
                   !.evaluation = evaluation]
            /\ UNCHANGED <<transactions, inventory, quotes, clock, seed_stock, result, workers>>

\* Step 3: make the counter-offer
negotiation_counter_offer(outcome) ==
    /\ session.pc = "counter_offer"
    /\ IF outcome = "raise" THEN negotiation_failed("Exception")
       ELSE negotiation_step("finalize", "counter_offer")

negotiation_rounds_as_runs(steps) == Len(steps) + 1

\* 'negotiation_rounds': 2 after a counter-offer, 1 after an accepted quote
negotiation_rounds(steps) ==
    IF \E i \in 1..Len(steps) : steps[i] = "counter_offer" THEN 2 ELSE 1

\* Step 4: finalize the deal and return
negotiation_finalize(outcome) ==
    /\ session.pc = "finalize"
    /\ IF outcome = "raise" THEN negotiation_failed("Exception")
       ELSE /\ session' = [session EXCEPT
                   !.pc = "done", !.steps = Append(@, "finalize"),
                   !.return = [negotiation_successful |-> TRUE, error |-> "",
                               initial_evaluation |-> session.evaluation,
                               counter_offer |-> session.steps[Len(session.steps)]
                                                    = "counter_offer",
                               final_deal |-> "finalized",
                               negotiation_rounds |-> negotiation_rounds(session.steps)]]
            /\ UNCHANGED <<transactions, inventory, quotes, clock, seed_stock, result, workers>>

----------------------------------------------------------------------------
(* The sequential system: one operation at a time *)

Init ==
    /\ seed_stock \in [Catalog -> SeedStocks]
    /\ transactions = SeedTransactions(seed_stock)
    /\ inventory = seed_stock
    /\ quotes = <<>>
    /\ clock = 0
    /\ result = [op |-> "init_database"]
    /\ workers = [w \in Workers |-> IdleWorker]
    /\ session = IdleSession

Tick ==
    /\ clock < MaxClock
    /\ clock' = clock + 1
    /\ result' = [op |-> "tick"]
    /\ UNCHANGED <<transactions, inventory, quotes, seed_stock, workers, session>>

StockOrderCalls == {<<"A4 paper", 100>>, <<"A4 paper", 1000000>>, <<UnknownItem, 100>>}

BadStockOrderCalls == {<<"A4 paper", q>> : q \in BadQuantities}

AgentSaleCalls ==
    {<<"A4 paper", 150, FALSE>>, <<"A4 paper", 200, FALSE>>, <<"A4 paper", 150, TRUE>>,
     <<"a4 paper", 150, FALSE>>, <<"Cardstock", 150, FALSE>>, <<UnknownItem, 150, FALSE>>}

BadAgentSaleCalls == {<<"A4 paper", q, FALSE>> : q \in BadQuantities}

SupplierOrderCalls ==
    {<<"A4 paper", 100, TRUE>>, <<"A4 paper", 1000000, TRUE>>, <<"A4 paper", 100, FALSE>>,
     <<"a4 paper", 100, TRUE>>, <<UnknownItem, 100, TRUE>>}

BadSupplierOrderCalls == {<<"A4 paper", q, TRUE>> : q \in BadQuantities}

QuoteCalls ==
    {<<"A4 paper", q>> : q \in {1, 49, 50, 199, 200, 499, 500, 999, 1000}}
    \cup {<<"cardstock", q>> : q \in {199, 200}}
    \cup {<<UnknownItem, 100>>}

BadQuoteCalls == {<<"A4 paper", q>> : q \in BadQuantities}

PriceBaskets ==
    {<<[item_name |-> "A4 paper", quantity |-> 500]>>,
     <<[item_name |-> UnknownItem, quantity |-> 100]>>,
     <<[item_name |-> UnknownItem, quantity |-> 100],
       [item_name |-> "Cardstock", quantity |-> 300]>>}

BadPriceBaskets == {<<[item_name |-> "A4 paper", quantity |-> q]>> : q \in BadQuantities}

ProcessSaleIn(baskets) ==
    \E d \in Days, items \in baskets :
        /\ Len(transactions) + Len(items) <= MaxLedger
        /\ process_sale_tool(d, items)

PlaceStockOrderIn(calls) ==
    \E d \in Days, c \in calls :
        /\ Len(transactions) < MaxLedger
        /\ place_stock_order_tool(d, c[1], c[2])

CreateSalesTransactionIn(calls) ==
    \E c \in calls :
        /\ Len(transactions) < MaxLedger
        /\ create_sales_transaction(c[1], c[2],
               QuotedPrice(IF FindItem(c[1]) = {} THEN c[1] ELSE ActualName(c[1])), c[3])

PlaceSupplierOrderIn(calls) ==
    \E c \in calls :
        /\ Len(transactions) < MaxLedger
        /\ place_supplier_order(c[1], c[2], c[3])

GenerateQuoteIn(calls) ==
    \E c \in calls :
        /\ Len(quotes) < MaxQuotes
        /\ generate_quote(c[1], c[2])

CalculateTotalPriceIn(baskets) == \E items \in baskets : calculate_total_price_tool(items)

ProcessSale == ProcessSaleIn(SaleBaskets)

PlaceStockOrder == PlaceStockOrderIn(StockOrderCalls)

CreateSalesTransaction == CreateSalesTransactionIn(AgentSaleCalls)

PlaceSupplierOrder == PlaceSupplierOrderIn(SupplierOrderCalls)

AutoReorder ==
    \E failing \in SUBSET Catalog :
        /\ Len(transactions) + Len(LowRows(inventory)) <= MaxLedger
        /\ auto_reorder_all_low_stock(failing)

GenerateQuote == GenerateQuoteIn(QuoteCalls)

CalculateTotalPrice == CalculateTotalPriceIn(PriceBaskets)

ProcessCustomerRequestAdvanced == process_customer_request_advanced

Next ==
    \/ Tick
    \/ ProcessSale
    \/ PlaceStockOrder
    \/ CreateSalesTransaction
    \/ PlaceSupplierOrder
    \/ AutoReorder
    \/ CalculateTotalPrice
    \/ ProcessCustomerRequestAdvanced

Spec == Init /\ [][Next]_vars

----------------------------------------------------------------------------
(* The quoting operations, with agent sales changing the stored stock *)

NextQuote ==
    \/ Tick
    \/ GenerateQuote
    \/ CalculateTotalPrice
    \/ CreateSalesTransaction

SpecQuote == Init /\ [][NextQuote]_vars

----------------------------------------------------------------------------
(* Sequential calls of process_sale_tool only *)

NextSale == ProcessSale

SpecSale == Init /\ [][NextSale]_vars

----------------------------------------------------------------------------
(* Calls with a quantity <= 0, after agent sales that may empty the stock *)

ProcessBadSale == ProcessSaleIn(BadSaleBaskets)

PlaceBadStockOrder == PlaceStockOrderIn(BadStockOrderCalls)

CreateBadSalesTransaction == CreateSalesTransactionIn(BadAgentSaleCalls)

PlaceBadSupplierOrder == PlaceSupplierOrderIn(BadSupplierOrderCalls)

GenerateBadQuote == GenerateQuoteIn(BadQuoteCalls)

CalculateBadTotalPrice == CalculateTotalPriceIn(BadPriceBaskets)

NextQty ==
    \/ CreateSalesTransaction
    \/ ProcessBadSale
    \/ PlaceBadStockOrder
    \/ CreateBadSalesTransaction
    \/ PlaceBadSupplierOrder
    \/ GenerateBadQuote
    \/ CalculateBadTotalPrice

SpecQty == Init /\ [][NextQty]_vars

----------------------------------------------------------------------------
(* Two concurrent sales *)

ConcQuantities == {150, 200}

SaleToolCheck ==
    \E w \in Workers, d \in Days, n \in Catalog, q \in ConcQuantities :
        sale_tool_check(w, d, n, q)

SaleToolAppend == \E w \in Workers : sale_tool_append(w)

AgentSaleSelect ==
    \E w \in Workers, n \in Catalog, q \in ConcQuantities : agent_sale_select(w, n, q)

AgentSaleWrite == \E w \in Workers : agent_sale_write(w)

NextConc ==
    \/ SaleToolCheck
    \/ SaleToolAppend
    \/ AgentSaleSelect
    \/ AgentSaleWrite

SpecConc == Init /\ [][NextConc]_vars

----------------------------------------------------------------------------
(* Tool sales followed by the low-stock report of the inventory tools *)

IdentifyLowStock == \E d \in Days : identify_low_stock_tool(d)

NextStock ==
    \/ ProcessSale
    \/ IdentifyLowStock

SpecStock == Init /\ [][NextStock]_vars

----------------------------------------------------------------------------
(* Sales and purchases by the tools and the agents, followed by the reads  *)
(* of the ledger                                                           *)

\* an as-of-date after every entry of the ledger
Latest == DateKey(MaxDay) + StampKey(MaxClock) + 1

AsOfKeys == {DateKey(d) : d \in Days} \cup {StampKey(t) : t \in 0..MaxClock} \cup {Latest}

ReadSaleBaskets ==
    {<<SaleLine("A4 paper", 150)>>,
     <<SaleLine("A4 paper", 200), SaleLine("Cardstock", 150)>>}

ReadStockOrderCalls == {<<"Cardstock", 100>>}

ReadAgentSaleCalls == {<<"A4 paper", 150, FALSE>>}

ReadSale == ProcessSaleIn(ReadSaleBaskets)

ReadStockOrder == PlaceStockOrderIn(ReadStockOrderCalls)

ReadAgentSale == CreateSalesTransactionIn(ReadAgentSaleCalls)

CheckAllInventory == \E d \in Days : check_all_inventory_tool(d)

GetStockLevel ==
    \E item_name \in Catalog, as_of_date \in AsOfKeys :
        ReadCall([op |-> "get_stock_level", item_name |-> item_name,
                  as_of_date |-> as_of_date])

GetAllInventory ==
    \E as_of_date \in AsOfKeys :
        ReadCall([op |-> "get_all_inventory", item_name |-> NoItem,
                  as_of_date |-> as_of_date])

GetCashBalance ==
    \E as_of_date \in AsOfKeys :
        ReadCall([op |-> "get_cash_balance", item_name |-> NoItem,
                  as_of_date |-> as_of_date])

NextRead ==
    \/ Tick
    \/ ReadSale
    \/ ReadStockOrder
    \/ ReadAgentSale
    \/ CheckAllInventory
    \/ GetStockLevel
    \/ GetAllInventory
    \/ GetCashBalance

SpecRead == Init /\ [][NextRead]_vars

----------------------------------------------------------------------------
(* process_sale_tool with the items an agent may pass: the dict of an item *)
(* is not validated, so it may lack unit_price                             *)

Unpriced(n, q) == [item_name |-> n, quantity |-> q]

AtomicSaleBaskets ==
    {<<SaleLine("A4 paper", 150)>>,
     <<SaleLine("Cardstock", 150)>>,
     <<Unpriced("Cardstock", 150)>>,
     <<SaleLine("A4 paper", 150), SaleLine("Cardstock", 500)>>,
     <<SaleLine("A4 paper", 150), Unpriced("Cardstock", 150)>>,
     <<SaleLine("A4 paper", 150), SaleLine("Cardstock", 150)>>,
     <<SaleLine("Cardstock", 50), Unpriced("A4 paper", 50)>>,
     <<SaleLine("A4 paper", 50)>>}

AtomicSale == ProcessSaleIn(AtomicSaleBaskets)

NextAtomic ==
    \/ AtomicSale

SpecAtomic == Init /\ [][NextAtomic]_vars

----------------------------------------------------------------------------
(* generate_financial_report (database.py), reached through               *)
(* get_financial_status_tool(detailed=True)                                *)

ReportStockLatest(tx, item_name, as_of_date) == get_stock_level(tx, item_name, Latest)

\* stock_info = get_stock_level(item["item_name"], as_of_date, engine)
ReportStock(tx, item_name, as_of_date) == get_stock_level(tx, item_name, as_of_date)

\* for _, item in inventory_df.iterrows(): ...
RECURSIVE InventorySummary(_, _, _)
InventorySummary(tx, i, as_of_date) ==
    IF i = 0 THEN <<>>
    ELSE LET item_name == CatalogOrder[i]
             stock == ReportStock(tx, item_name, as_of_date)
         IN  Append(InventorySummary(tx, i - 1, as_of_date),
                    [item_name |-> item_name, stock |-> stock,
                     unit_price |-> unit_price[item_name],
                     value |-> stock * unit_price[item_name]])

RECURSIVE SumValues(_, _)
SumValues(summary, i) == IF i = 0 THEN 0 ELSE SumValues(summary, i - 1) + summary[i].value

\* SELECT item_name, SUM(units), SUM(price) FROM transactions WHERE
\* transaction_type = 'sales' AND transaction_date <= :date GROUP BY item_name
RECURSIVE SalesGroups(_, _, _)
SalesGroups(tx, i, as_of_date) ==
    IF i = 0 THEN [n \in {} |-> [total_units |-> 0, total_revenue |-> 0]]
    ELSE LET groups == SalesGroups(tx, i - 1, as_of_date)
             row == tx[i]
             before == IF row.item_name \in DOMAIN groups THEN groups[row.item_name]
                       ELSE [total_units |-> 0, total_revenue |-> 0]
         IN  IF row.transaction_type # "sales" \/ row.transaction_date > as_of_date
             THEN groups
             ELSE [n \in DOMAIN groups \cup {row.item_name} |->
                      IF n = row.item_name
                      THEN [total_units |-> before.total_units + row.units,
                            total_revenue |-> before.total_revenue + row.price]
                      ELSE groups[n]]

\* the rows of GROUP BY item_name come out in the order of item_name, NULL first
GroupOrder == <<NoItem>> \o CatalogOrder \o <<UnknownItem>>

TOP_LIMIT == 5

\* ... ORDER BY total_revenue DESC LIMIT 5
top_selling_products(tx, as_of_date) ==
    LET groups == SalesGroups(tx, Len(tx), as_of_date)
        rows == [i \in 1..Len(SelectSeq(GroupOrder, LAMBDA n : n \in DOMAIN groups)) |->
                    LET n == SelectSeq(GroupOrder, LAMBDA m : m \in DOMAIN groups)[i]
                    IN  [item_name |-> n, total_units |-> groups[n].total_units,
                         total_revenue |-> groups[n].total_revenue]]
        sorted == SortSeq(rows, LAMBDA a, b : a.total_revenue > b.total_revenue)
    IN  SubSeq(sorted, 1, IF Len(sorted) < TOP_LIMIT THEN Len(sorted) ELSE TOP_LIMIT)

generate_financial_report(as_of_date) ==
    LET cash == get_cash_balance(transactions, as_of_date)
        inventory_summary == InventorySummary(transactions, Len(CatalogOrder), as_of_date)
        inventory_value == SumValues(inventory_summary, Len(inventory_summary))
    IN  /\ result' = [op |-> "generate_financial_report", as_of_date |-> as_of_date,
                      cash_balance |-> cash, inventory_value |-> inventory_value,
                      total_assets |-> cash + inventory_value,
                      inventory_summary |-> inventory_summary,
                      top_selling_products |->
                          top_selling_products(transactions, as_of_date)]
        /\ UNCHANGED <<transactions, inventory, quotes, clock, seed_stock, workers, session>>

GenerateFinancialReport == \E as_of_date \in AsOfKeys : generate_financial_report(as_of_date)

NextReport ==
    \/ Tick
    \/ ReadSale
    \/ ReadStockOrder
    \/ ReadAgentSale
    \/ GenerateFinancialReport

SpecReport == Init /\ [][NextReport]_vars

----------------------------------------------------------------------------
(* Reordering: agent sales lower the stored stock, then the three places   *)
(* that compute a reorder quantity                                         *)

ReorderSaleCalls ==
    {<<"A4 paper", 160, FALSE>>, <<"A4 paper", 200, FALSE>>,
     <<"Cardstock", 101, FALSE>>, <<"Cardstock", 150, FALSE>>}

ReorderQuantityCalls ==
    {<<n, c>> : n \in Catalog \cup {UnknownItem}, c \in {0, 40, 99, 100, 150, 250}}

ReorderSale == CreateSalesTransactionIn(ReorderSaleCalls)

CheckLowStockItems == check_low_stock_items

CalculateReorderQuantity ==
    \E c \in ReorderQuantityCalls : calculate_reorder_quantity_tool(c[1], c[2])

NextReorder ==
    \/ ReorderSale
    \/ AutoReorder
    \/ CheckLowStockItems
    \/ CalculateReorderQuantity

SpecReorder == Init /\ [][NextReorder]_vars

----------------------------------------------------------------------------
(* After a sale.  create_sales_transaction returns its confirmation and    *)
(* calls nothing further; the sales agent has no tool that reaches the     *)
(* reordering agent.  A supplier order is placed only when a caller asks   *)
(* for it (trigger_reorder_check, place_supplier_order), which nothing     *)
(* obliges the caller to do.  Time passes whatever the caller does.        *)

NextTrigger ==
    \/ Tick
    \/ ReorderSale
    \/ AutoReorder
    \/ PlaceSupplierOrder

SpecTrigger == Init /\ [][NextTrigger]_vars /\ WF_vars(Tick)

----------------------------------------------------------------------------
(* The business rules called on their own: the discount tiers *)

MaxQuantity == 1001

GetDiscountPercentage ==
    \E quantity \in 0..MaxQuantity :
        /\ result' = [op |-> "get_discount_percentage", quantity |-> quantity,
                      rate |-> get_discount_percentage(quantity)]
        /\ UNCHANGED <<transactions, inventory, quotes, clock, seed_stock, workers, session>>

NextRules ==
    \/ GetDiscountPercentage

SpecRules == Init /\ [][NextRules]_vars

----------------------------------------------------------------------------
(* evaluate_quote called on quotes and profiles *)

CustomerIds == {"CUST001", "CUST002", "CUST003", "CUST999"}

QuoteTotals == {7500, 100000, 300000, 500000, 600000, 1500000, 2000001, 5000000, 6000000}

CustomerQuotes ==
    [total_price : QuoteTotals, delivery_days : {3, 5, 7},
     discount_percentage : {0, 500, 50000, 150000}]

EvaluateQuote ==
    \E quote \in CustomerQuotes, customer_id \in CustomerIds :
        evaluate_quote(quote, analyze_customer_profile(customer_id))

NextEvaluate ==
    \/ EvaluateQuote

SpecEvaluate == Init /\ [][NextEvaluate]_vars

----------------------------------------------------------------------------
(* make_counter_offer called on quotes and on its own counter-offers *)

NegotiationStyles == {"cooperative", "analytical", "aggressive"}

CustomerTypes == {"standard", "premium", "bulk"}

CounterProfiles ==
    {[DefaultProfile("CUST999") EXCEPT !.negotiation_style = style, !.customer_type = type] :
        style \in NegotiationStyles, type \in CustomerTypes}

OriginalQuote(subtotal, rate, delivery_days) ==
    [subtotal |-> subtotal, discount_percentage |-> rate,
     discount_amount |-> subtotal * rate,
     total_price |-> subtotal * RateUnit - subtotal * rate,
     delivery_days |-> delivery_days, counter_offer_reason |-> <<>>]

OriginalQuotes ==
    {OriginalQuote(subtotal, rate, days) :
        subtotal \in {750, 2000}, rate \in {0, 20000, 150000, 240000, 300000},
        days \in {3, 7}}

MakeCounterOffer ==
    \E customer_profile \in CounterProfiles,
       original_quote \in OriginalQuotes \cup
           (IF result.op = "make_counter_offer" THEN {result.counter_offer} ELSE {}) :
        make_counter_offer(original_quote, customer_profile)

NextCounter ==
    \/ MakeCounterOffer

SpecCounter == Init /\ [][NextCounter]_vars

----------------------------------------------------------------------------
(* make_counter_offer answering any quote a caller may pass: any discount, *)
(* any delivery_days, with or without a subtotal                           *)

QuoteWithoutSubtotal(total_price, rate, delivery_days) ==
    [total_price |-> total_price * RateUnit, discount_percentage |-> rate,
     delivery_days |-> delivery_days]

AnyQuotes ==
    {OriginalQuote(subtotal, rate, days) :
        subtotal \in {750, 2000}, rate \in {0, 150000, 250000, 300000}, days \in {1, 3, 4, 7}}
    \cup {QuoteWithoutSubtotal(750, rate, days) : rate \in {0, 50000}, days \in {3, 7}}

AnswerQuote ==
    \E customer_profile \in CounterProfiles, original_quote \in AnyQuotes :
        make_counter_offer(original_quote, customer_profile)

NextOffer ==
    \/ AnswerQuote

SpecOffer == Init /\ [][NextOffer]_vars

----------------------------------------------------------------------------
(* One negotiation session *)

InitialQuotes ==
    [total_price : {7500, 600000}, delivery_days : {3, 7}, discount_percentage : {0, 50000}]

NegotiateWithCustomer ==
    \E customer_id \in CustomerIds, initial_quote \in InitialQuotes :
        negotiate_with_customer(customer_id, initial_quote)

NegotiationAnalyze == \E outcome \in RunOutcomes : negotiation_analyze(outcome)

NegotiationEvaluate ==
    \E outcome \in RunOutcomes, evaluation \in EvaluationOutputs :
        negotiation_evaluate(outcome, evaluation)

NegotiationCounterOffer == \E outcome \in RunOutcomes : negotiation_counter_offer(outcome)

NegotiationFinalize == \E outcome \in RunOutcomes : negotiation_finalize(outcome)

NextNegotiate ==
    \/ NegotiateWithCustomer
    \/ NegotiationAnalyze
    \/ NegotiationEvaluate
    \/ NegotiationCounterOffer
    \/ NegotiationFinalize

SpecNegotiate == Init /\ [][NextNegotiate]_vars

----------------------------------------------------------------------------
(* Properties.  Every action writes result, so in a step that changes the  *)
(* state result' describes the operation that took the step.               *)

SaleAppendedBy(k) ==
    \E i \in NSeed + 1..Len(transactions) :
        /\ transactions[i].transaction_type = "sales"
        /\ transactions[i].transaction_date <= k

\* C1: after any sequence of sequential process_sale_tool calls with
\* quantities >= 1 and any current_date, the derived stock of every item is
\* >= 0 at every as-of-date on or after the date of an appended sale.
C1_NoOversell ==
    \A n \in Catalog, k \in AsOfKeys :
        SaleAppendedBy(k) => get_stock_level(transactions, n, k) >= 0

OrderOps == {"place_stock_order_tool", "place_supplier_order"}

OrderDate(r) == IF r.op = "place_stock_order_tool" THEN r.date ELSE StampKey(clock)

OrderItemKnown(r) ==
    IF r.op = "place_stock_order_tool" THEN r.item_name \in Catalog
    ELSE FindItem(r.item_name) # {}

OrderCost(r) ==
    r.quantity * unit_price[IF r.op = "place_stock_order_tool" THEN r.item_name
                            ELSE ActualName(r.item_name)]

\* C2: a reorder placement (place_stock_order_tool, place_supplier_order)
\* whose cost exceeds the cash balance at the order's date fails with
\* insufficient funds and appends nothing; a run of
\* auto_reorder_all_low_stock started with non-negative cash never leaves
\* the cash negative.
C2_InsufficientFunds ==
    [][LET r == result' IN
         /\ (/\ r.op \in OrderOps
             /\ OrderItemKnown(r)
             /\ OrderCost(r) > get_cash_balance(transactions, OrderDate(r)))
            => (r.error = "InsufficientFunds" /\ transactions' = transactions)
         /\ (/\ r.op = "auto_reorder_all_low_stock"
             /\ get_cash_balance(transactions, StampKey(clock)) >= 0)
            => get_cash_balance(transactions', StampKey(clock)) >= 0
      ]_vars

\* C3: every operation after the seeding only appends to the ledger: the
\* entries present before a step are present, unchanged and in place,
\* after it, and the ledger never gets shorter.
C3_AppendOnly ==
    [][/\ Len(transactions') >= Len(transactions)
       /\ SubSeq(transactions', 1, Len(transactions)) = transactions]_vars

\* C4: after any sequence of sales and reorders through the tools and the
\* agents, the stored inventory.current_stock of every catalog item equals
\* the stock derived from the ledger.
C4_StoredEqualsDerived ==
    \A n \in Catalog : inventory[n] = get_stock_level(transactions, n, Latest)

\* C5: when two sales of the same item at the same date run concurrently
\* and the stock suffices for either alone but not for both, at most one
\* appends its entry, the other is rejected with insufficient stock, and
\* the derived stock does not become negative.
C5_AtomicCheckThenAppend ==
    \A w1, w2 \in Workers :
        (/\ w1 # w2
         /\ workers[w1].pc = "done" /\ workers[w2].pc = "done"
         /\ workers[w1].item_name = workers[w2].item_name
         /\ workers[w1].date = workers[w2].date
         /\ workers[w1].quantity <= seed_stock[workers[w1].item_name]
         /\ workers[w2].quantity <= seed_stock[workers[w1].item_name]
         /\ workers[w1].quantity + workers[w2].quantity > seed_stock[workers[w1].item_name])
        => /\ ~(workers[w1].outcome = "ok" /\ workers[w2].outcome = "ok")
           /\ "InsufficientStock" \in {workers[w1].outcome, workers[w2].outcome}
           /\ get_stock_level(transactions, workers[w1].item_name, Latest) >= 0

\* the entries a step appended
Appended == SubSeq(transactions', Len(transactions) + 1, Len(transactions'))

RECURSIVE SumCost(_, _)
SumCost(orders, i) == IF i = 0 THEN 0 ELSE SumCost(orders, i - 1) + orders[i].cost

\* C6: auto_reorder_all_low_stock processes every deficit item even when an
\* earlier order fails, and reports an item as ordered, with its cost in
\* the total, only if a purchase entry for it was appended.
C6_ReorderSummary ==
    [][LET r == result' IN
         r.op = "auto_reorder_all_low_stock" =>
           /\ Len(r.orders_placed) = Len(LowRows(inventory))
           /\ \A i \in 1..Len(r.orders_placed) :
                /\ r.orders_placed[i].product = LowRows(inventory)[i]
                /\ \E j \in 1..Len(Appended) :
                     /\ Appended[j].item_name = r.orders_placed[i].product
                     /\ Appended[j].transaction_type = "stock_orders"
                     /\ Appended[j].units = r.orders_placed[i].quantity
           /\ r.total_cost = SumCost(r.orders_placed, Len(r.orders_placed))
           /\ get_cash_balance(transactions, Latest) - get_cash_balance(transactions', Latest)
                = r.total_cost
      ]_vars

BasketOps == {"process_sale_tool", "calculate_total_price_tool"}

QuantityOps ==
    {"generate_quote", "process_sale_tool", "create_sales_transaction",
     "place_stock_order_tool", "place_supplier_order", "calculate_total_price_tool"}

HasBadQuantity(r) ==
    IF r.op \in BasketOps
    THEN \E i \in 1..Len(r.items) : r.items[i].quantity <= 0
    ELSE r.quantity <= 0

\* C7: every operation that takes a quantity rejects a quantity <= 0 with
\* an invalid-quantity failure and appends nothing to the ledger or the
\* quote log.
C7_InvalidQuantity ==
    [][LET r == result' IN
         (r.op \in QuantityOps /\ HasBadQuantity(r)) =>
           /\ r.error = "InvalidQuantity"
           /\ transactions' = transactions
           /\ quotes' = quotes
      ]_vars

NameOps ==
    {"generate_quote", "calculate_total_price_tool", "process_sale_tool",
     "place_stock_order_tool", "place_supplier_order"}

\* the agents look a name up ignoring case, the tools exactly
HasUnknownItem(r) ==
    CASE r.op \in BasketOps -> \E i \in 1..Len(r.items) : r.items[i].item_name \notin Catalog
      [] r.op = "place_stock_order_tool" -> r.item_name \notin Catalog
      [] OTHER -> FindItem(r.item_name) = {}

\* C8: every operation that takes an item name, called with a name absent
\* from the catalog, returns an item-not-found failure and appends nothing
\* to the ledger or the quote log.
C8_ItemNotFound ==
    [][LET r == result' IN
         (r.op \in NameOps /\ HasUnknownItem(r)) =>
           /\ r.error = "ItemNotFound"
           /\ transactions' = transactions
           /\ quotes' = quotes
      ]_vars

\* C9: a successful generate_quote appends exactly one record to the quote
\* log and leaves the ledger, every derived stock level, the stored
\* inventory and the cash balance unchanged; a generate_quote for an
\* unknown item appends nothing anywhere.
C9_QuoteFrame ==
    [][LET r == result' IN
         r.op = "generate_quote" =>
           /\ transactions' = transactions
           /\ inventory' = inventory
           /\ \A n \in Catalog, k \in AsOfKeys :
                get_stock_level(transactions', n, k) = get_stock_level(transactions, n, k)
           /\ \A k \in AsOfKeys :
                get_cash_balance(transactions', k) = get_cash_balance(transactions, k)
           /\ r.success =>
                /\ Len(quotes') = Len(quotes) + 1
                /\ SubSeq(quotes', 1, Len(quotes)) = quotes
                /\ quotes'[Len(quotes')].total_amount = r.total_price
           /\ FindItem(r.item_name) = {} => (~r.success /\ quotes' = quotes)
      ]_vars

C9_Witness ==
    /\ result.op = "generate_quote"
    /\ result.success
    /\ Len(quotes) = 1
    /\ Len(transactions) > NSeed

\* the tier table of the quote engine, in percent
TierRate(quantity) ==
    IF quantity >= 1000 THEN 15
    ELSE IF quantity >= 500 THEN 10
    ELSE IF quantity >= 200 THEN 5
    ELSE IF quantity >= 50 THEN 2
    ELSE 0

\* C10: for every catalog item and quantity >= 1 the quote has
\* rate = tier(quantity), subtotal = unit_price x quantity,
\* discount = subtotal x rate, total = subtotal - discount and
\* 0 <= total <= subtotal; A4 paper at 0.05 with quantity 500 gives rate
\* 0.10, subtotal 25.00, discount 2.50, total 22.50 (amounts in 1/100 cent).
C10_QuoteArithmetic ==
    (result.op = "generate_quote" /\ result.success /\ result.quantity >= 1) =>
        /\ result.discount_percentage = TierRate(result.quantity)
        /\ result.subtotal = unit_price[result.actual_name] * result.quantity * RateScale
        /\ result.discount_amount * RateScale = result.subtotal * result.discount_percentage
        /\ result.total_price = result.subtotal - result.discount_amount
        /\ 0 <= result.total_price /\ result.total_price <= result.subtotal
        /\ (result.actual_name = "A4 paper" /\ result.quantity = 500) =>
              /\ result.discount_percentage = 10
              /\ result.subtotal = 250000
              /\ result.discount_amount = 25000
              /\ result.total_price = 225000

C10_Witness ==
    /\ result.op = "generate_quote"
    /\ result.success
    /\ result.actual_name = "A4 paper"
    /\ result.quantity = 500
    /\ result.total_price = 225000

\* C11: get_discount_percentage returns the rate of the first matching
\* threshold in descending order (>= 1000: 15%, >= 500: 10%, >= 200: 5%,
\* >= 50: 2%, otherwise 0); the rate is non-decreasing in the quantity and
\* tier(49) = 0, tier(50) = 2%, tier(199) = 2%, tier(200) = 5%,
\* tier(999) = 10%, tier(1000) = 15%.
C11_DiscountTiers ==
    result.op = "get_discount_percentage" =>
        /\ result.rate = TierRate(result.quantity)
        /\ \A q \in 0..result.quantity : get_discount_percentage(q) <= result.rate
        /\ result.quantity = 49 => result.rate = 0
        /\ result.quantity = 50 => result.rate = 2
        /\ result.quantity = 199 => result.rate = 2
        /\ result.quantity = 200 => result.rate = 5
        /\ result.quantity = 999 => result.rate = 10
        /\ result.quantity = 1000 => result.rate = 15

C11_Witness ==
    /\ result.op = "get_discount_percentage"
    /\ result.quantity = 1000
    /\ result.rate = 15

\* round(min_level x 1.5), halves to the even neighbour
RoundSafetyStock(min_level) ==
    IF min_level % 2 = 0 THEN (3 * min_level) \div 2
    ELSE LET below == (3 * min_level - 1) \div 2
         IN  IF below % 2 = 0 THEN below ELSE below + 1

RecommendedQty(min_level, current) ==
    IF RoundSafetyStock(min_level) - current > 0
    THEN RoundSafetyStock(min_level) - current ELSE 0

\* C12: the recommended reorder quantity equals
\* max(round(min_level x 1.5) - current, 0) in check_low_stock_items, in
\* auto_reorder_all_low_stock and in calculate_reorder_quantity_tool; for
\* stock 40 and min 50 it is 35.
C12_ReorderQuantity ==
    [][LET r == result' IN
         /\ r.op = "check_low_stock_items" =>
              \A i \in 1..Len(r.reorder_items) :
                  r.reorder_items[i].reorder_quantity =
                      RecommendedQty(r.reorder_items[i].min_stock_level,
                                     r.reorder_items[i].current_stock)
         /\ r.op = "auto_reorder_all_low_stock" =>
              \A i \in 1..Len(r.orders_placed) :
                  r.orders_placed[i].quantity =
                      RecommendedQty(min_stock_level[r.orders_placed[i].product],
                                     inventory[r.orders_placed[i].product])
         /\ (r.op = "calculate_reorder_quantity_tool" /\ r.item_name \in Catalog) =>
              /\ r.reorder_qty = RecommendedQty(min_stock_level[r.item_name], r.current_stock)
              /\ (min_stock_level[r.item_name] = 50 /\ r.current_stock = 40) => r.reorder_qty = 35
      ]_vars

\* C13: identify_low_stock_tool returns exactly the catalog items whose
\* ledger-derived stock at the as-of date is below min_stock_level, each
\* with current equal to that derived stock and deficit = min_level -
\* current, also when the derived stock is zero or negative (not clamped).
C13_DeficitDetection ==
    result.op = "identify_low_stock_tool" =>
        LET items == result.low_stock_items
            derived(n) == get_stock_level(transactions, n, result.date)
        IN  /\ {items[i].item_name : i \in 1..Len(items)} =
                   {n \in Catalog : derived(n) < min_stock_level[n]}
            /\ \A i \in 1..Len(items) :
                 /\ items[i].current_stock = derived(items[i].item_name)
                 /\ items[i].shortage = min_stock_level[items[i].item_name]
                                           - derived(items[i].item_name)
            /\ \A i, j \in 1..Len(items) : items[i].item_name = items[j].item_name => i = j

\* purchase units minus sale units of the entries of an item dated in (k1, k2]
RECURSIVE WindowUnits(_, _, _, _, _)
WindowUnits(tx, i, n, k1, k2) ==
    IF i = 0 THEN 0
    ELSE WindowUnits(tx, i - 1, n, k1, k2) +
         (IF /\ tx[i].item_name = n
             /\ k1 < tx[i].transaction_date
             /\ tx[i].transaction_date <= k2
          THEN IF tx[i].transaction_type = "stock_orders" THEN tx[i].units
               ELSE IF tx[i].transaction_type = "sales" THEN -tx[i].units
               ELSE 0
          ELSE 0)

\* C20: for every item and all dates d1 <= d2,
\* get_stock_level(item, d2) - get_stock_level(item, d1) equals the sum of
\* purchase units minus the sum of sale units over the entries of that item
\* dated in (d1, d2], after any sequence of appends.
C20_Conservation ==
    \A n \in Catalog, k1, k2 \in AsOfKeys :
        k1 <= k2 =>
            get_stock_level(transactions, n, k2) - get_stock_level(transactions, n, k1)
                = WindowUnits(transactions, Len(transactions), n, k1, k2)

C20_Witness ==
    /\ \E i, j \in NSeed + 1..Len(transactions) :
          /\ transactions[i].transaction_type = "sales"
          /\ transactions[j].transaction_type = "stock_orders"
          /\ transactions[i].item_name = transactions[j].item_name
          /\ transactions[i].transaction_date # transactions[j].transaction_date
    /\ \E n \in Catalog, k1, k2 \in AsOfKeys :
          /\ k1 < k2
          /\ WindowUnits(transactions, Len(transactions), n, k1, k2) # 0
          /\ get_stock_level(transactions, n, k1) # seed_stock[n]

Clamp(x, lo, hi) == IF x < lo THEN lo ELSE IF x > hi THEN hi ELSE x

\* C14: for every quote and every profile with budget_min < budget_max,
\* score = 0.5 + price + delivery + discount, where price =
\* 0.4 x (1 - (total_price - budget_min)/(budget_max - budget_min)) clamped
\* to [0, 0.4] when total_price <= budget_max and 0 otherwise, delivery is
\* 0.3 or 0 and discount is 0.2 or 0; the score lies in [0.5, 1.4], also
\* when total_price is below budget_min.
C14_SatisfactionScore ==
    (/\ result.op = "evaluate_quote"
     /\ result.profile.budget_range # NoBudget
     /\ result.profile.budget_range[1] < result.profile.budget_range[2])
    => LET spread == SpreadOf(result.profile)
           budget_max == result.profile.budget_range[2]
       IN  /\ result.error = ""
           /\ result.price =
                 (IF result.quote.total_price <= budget_max
                  THEN Clamp(4 * (budget_max - result.quote.total_price), 0, 4 * spread)
                  ELSE 0)
           /\ result.delivery \in {0, 3}
           /\ result.discount \in {0, 2}
           /\ result.satisfaction_score =
                 5 * spread + result.price + (result.delivery + result.discount) * spread
           /\ 5 * spread <= result.satisfaction_score
           /\ result.satisfaction_score <= 14 * spread

ScenarioC ==
    /\ result.op = "evaluate_quote"
    /\ result.profile = Profiles["CUST001"]
    /\ result.quote.total_price = 7500
    /\ result.quote.delivery_days = 7
    /\ result.quote.discount_percentage \in {500, 50000}

\* C15: Scenario C (premium/analytical customer, budget (5000, 15000),
\* preferred delivery 5 days, loyalty discount 5%; quote total 75, delivery
\* 7 days, discount 5%): delivery component 0, a score below 0.8 and the
\* strategy minor_negotiation or major_negotiation, never accept.
C15_ScenarioC ==
    ScenarioC =>
        /\ result.delivery = 0
        /\ result.satisfaction_score < 8 * SpreadOf(result.profile)
        /\ result.strategy \in {"minor_negotiation", "major_negotiation"}

\* C15 as amended: in Scenario C the delivery component is 0, the discount
\* component is 0.2, the score is at least 0.8 and the strategy is accept.
C15_ScenarioC_Amended ==
    ScenarioC =>
        /\ result.error = ""
        /\ result.delivery = 0
        /\ result.discount = 2
        /\ result.satisfaction_score >= 8 * SpreadOf(result.profile)
        /\ result.strategy = "accept"

C15_Witness ==
    /\ ScenarioC
    /\ result.quote.discount_percentage = 50000
    /\ result.strategy = "accept"

StyleIncrease == [aggressive |-> 150000, analytical |-> 100000, cooperative |-> 60000]

\* in tenths
TypeFactor == [premium |-> 12, bulk |-> 15, standard |-> 10]

\* C16: the discount rate of the counter-offer of make_counter_offer equals
\* min(current_rate + style_increase x type_factor, 0.25) and never
\* exceeds 0.25, after any number of successive counter-offers.
C16_DiscountCap ==
    result.op = "make_counter_offer" =>
        LET wanted == result.original_quote.discount_percentage
                        + (StyleIncrease[result.profile.negotiation_style]
                             * TypeFactor[result.profile.customer_type]) \div 10
        IN  /\ result.counter_offer.discount_percentage =
                  (IF wanted < 250000 THEN wanted ELSE 250000)
            /\ result.counter_offer.discount_percentage <= 250000
            /\ result.counter_offer.total_price >= result.counter_offer.subtotal * 750000

C16_Witness ==
    /\ result.op = "make_counter_offer"
    /\ result.original_quote.counter_offer_reason # <<>>
    /\ result.original_quote.discount_percentage < 250000
    /\ result.counter_offer.discount_percentage = 250000

\* the evaluate/counter-offer cycles a session has run
CyclesRun(steps) == Cardinality({i \in 1..Len(steps) : steps[i] = "evaluate"})

\* C17: in every negotiation run by negotiate_with_customer the round
\* counter (the evaluate/counter-offer cycles run, reported as
\* negotiation_rounds) never exceeds max_rounds (3), in every reachable
\* state of the session.
C17_RoundBound ==
    /\ CyclesRun(session.steps) <= max_rounds
    /\ session.return.negotiation_rounds <= max_rounds

C17_Witness ==
    /\ session.pc = "done"
    /\ session.return.negotiation_successful
    /\ session.return.negotiation_rounds = 2

Position(steps, step) ==
    IF \E i \in 1..Len(steps) : steps[i] = step
    THEN CHOOSE i \in 1..Len(steps) : steps[i] = step
    ELSE 0

ProtocolOrder(s) ==
    /\ \A i, j \in 1..Len(s.steps) : s.steps[i] = s.steps[j] => i = j
    /\ Position(s.steps, "finalize") > 0 =>
          /\ Position(s.steps, "evaluate") > 0
          /\ Position(s.steps, "evaluate") < Position(s.steps, "finalize")
          /\ Position(s.steps, "finalize") = Len(s.steps)
          /\ (Position(s.steps, "counter_offer") > 0) <=> (s.evaluation # "accept")
    /\ Position(s.steps, "counter_offer") > 0 =>
          /\ Position(s.steps, "evaluate") > 0
          /\ Position(s.steps, "evaluate") < Position(s.steps, "counter_offer")
          /\ s.evaluation # "accept"
    /\ s.pc = "done" =>
          \/ /\ s.return.negotiation_successful
             /\ s.return.final_deal # NoDeal
             /\ Position(s.steps, "finalize") > 0
          \/ /\ ~s.return.negotiation_successful
             /\ s.return.final_deal = NoDeal
             /\ Position(s.steps, "finalize") = 0

C21_AllStockSnapshot ==
    /\ \A k \in AsOfKeys :
          LET snapshot == get_all_inventory(transactions, k)
          IN  /\ DOMAIN snapshot =
                    {n \in Catalog \cup LedgerItems(transactions) :
                        get_stock_level(transactions, n, k) > 0}
              /\ \A n \in DOMAIN snapshot :
                    /\ snapshot[n] = get_stock_level(transactions, n, k)
                    /\ snapshot[n] > 0
    /\ result.op = "check_all_inventory_tool" =>
          /\ DOMAIN result.inventory =
                {n \in Catalog : get_stock_level(transactions, n, result.date) > 0}
          /\ \A n \in DOMAIN result.inventory :
                result.inventory[n] = get_stock_level(transactions, n, result.date)

C21_Witness ==
    /\ result.op = "check_all_inventory_tool"
    /\ DOMAIN result.inventory # Catalog
    /\ \E n \in Catalog : get_stock_level(transactions, n, result.date) < 0

ReadOps == {"get_stock_level", "get_all_inventory", "get_cash_balance"}

RECURSIVE PriceSum(_, _, _, _)
PriceSum(tx, i, type, k) ==
    IF i = 0 THEN 0
    ELSE PriceSum(tx, i - 1, type, k) +
         (IF tx[i].transaction_type = type /\ tx[i].transaction_date <= k
          THEN tx[i].price ELSE 0)

RECURSIVE StockValue(_, _, _)
StockValue(tx, items, k) ==
    IF items = {} THEN 0
    ELSE LET n == CHOOSE m \in items : TRUE
         IN  get_stock_level(tx, n, k) * unit_price[n] + StockValue(tx, items \ {n}, k)

C24_TopSellers ==
    result.op = "generate_financial_report" =>
        LET top == result.top_selling_products
        IN  /\ Len(top) <= 5
            /\ \A i \in 1..Len(top) :
                  /\ top[i].item_name \in Catalog
                  /\ top[i].item_name # NoItem
            /\ \A i \in 1..Len(top) - 1 : top[i].total_revenue >= top[i + 1].total_revenue

\* the lead time of the quantity band, in days
LeadTimeBand(quantity) ==
    CASE quantity <= 10 -> 0
      [] quantity >= 11 /\ quantity <= 100 -> 1
      [] quantity >= 101 /\ quantity <= 1000 -> 4
      [] quantity > 1000 -> 7

\* C25: the expected delivery date of every supplier order is the order
\* date plus 0 days for quantity <= 10, 1 day for 11..100, 4 days for
\* 101..1000 and 7 days above 1000, both for orders placed by
\* place_stock_order_tool and for orders placed by place_supplier_order.
C25_SupplierLeadTime ==
    /\ (result.op = "place_stock_order_tool" /\ result.success) =>
          result.estimated_delivery =
              result.date \div (TicksPerDay + 1) + LeadTimeBand(result.quantity)
    /\ (result.op = "place_supplier_order" /\ result.success) =>
          result.expected_delivery =
              clock \div TicksPerDay + LeadTimeBand(result.quantity)

ShortItems(tx, items, date) ==
    {i \in 1..Len(items) : get_stock_level(tx, items[i].item_name, date) < items[i].quantity}

\* C26: whenever process_sale_tool returns success=false, no sale entry of
\* that call is in the ledger; in particular, for a multi-item sale in which
\* any one item's derived stock at current_date is below its requested
\* quantity, the call names such an item with the requested and available
\* amounts and appends no entry for any item.
C26_AllOrNothingSale ==
    [][result'.op = "process_sale_tool" =>
          /\ ~result'.success => transactions' = transactions
          /\ ShortItems(transactions, result'.items, result'.date) # {} =>
                /\ ~result'.success
                /\ transactions' = transactions
                /\ \E i \in ShortItems(transactions, result'.items, result'.date) :
                      /\ result'.item_name = result'.items[i].item_name
                      /\ result'.requested = result'.items[i].quantity
                      /\ result'.available =
                            get_stock_level(transactions, result'.items[i].item_name,
                                            result'.date)]_vars

\* the confirmation of a completed sale says 'Auto-reordering triggered'
ReorderAlert(n) ==
    /\ result.op = "create_sales_transaction"
    /\ result.success
    /\ result.reorder_alert
    /\ result.actual_name = n

OrderPlaced(n) ==
    \/ /\ result.op = "place_supplier_order"
       /\ result.success
       /\ ActualName(result.item_name) = n
    \/ /\ result.op = "auto_reorder_all_low_stock"
       /\ \E i \in 1..Len(result.rows) :
             result.rows[i] = n /\ result.outcomes[i] = "ok"

\* C27: whenever a sale completed by create_sales_transaction leaves an
\* item's stock below its min_stock_level (the confirmation says
\* 'Auto-reordering triggered'), a supplier purchase order for that item is
\* eventually placed, without the caller being obliged to request it.
C27_LowStockTriggersReorder ==
    \A n \in Catalog : ReorderAlert(n) ~> OrderPlaced(n)

\* C29: a counter-offer is never worse for the customer than the quote it
\* answers: for every original quote (any discount, any delivery_days, with
\* or without a subtotal field), negotiation style and customer type,
\* make_counter_offer returns total_price <= original total_price,
\* discount >= original discount and delivery_days <= original
\* delivery_days.
C29_CounterOfferNotWorse ==
    result.op = "make_counter_offer" =>
        /\ result.counter_offer.total_price <= result.original_quote.total_price
        /\ result.counter_offer.discount_percentage
              >= result.original_quote.discount_percentage
        /\ result.counter_offer.delivery_days <= result.original_quote.delivery_days

\* C28: evaluate_quote returns an evaluation (a score and a strategy) as a
\* value for every customer profile the data model allows, including a
\* profile whose budget_range is null (the default profile given to an
\* unknown customer id) and a profile with budget_min = budget_max; it never
\* ends in an unhandled error.
C28_EvaluationTotal ==
    result.op = "evaluate_quote" =>
        /\ result.error = ""
        /\ result.strategy \in {"accept", "minor_negotiation", "major_negotiation"}

\* C30: any two distinct records created by the system carry distinct
\* identifiers: two sales (generate_id), two supplier orders
\* (generate_order_id) or two quotes (generate_request_id) created within
\* the same clock second get different ids.
C30_IdentifierUniqueness ==
    /\ \A i, j \in 1..Len(transactions) :
          (i # j /\ transactions[i].id # NoId /\ transactions[j].id # NoId) =>
              transactions[i].id # transactions[j].id
    /\ \A i, j \in 1..Len(quotes) :
          i # j => quotes[i].request_id # quotes[j].request_id

====
